---- MODULE Spec2Model ----
(***************************************************************************)
(* A model of rak-rs' per-peer Connection (src/src/connection/conn.rs),     *)
(* the offline packets it exchanges (src/src/protocol/packet/offline.rs)    *)
(* and the bounded outbound send channel the connections share with the    *)
(* listener's writer.                                                      *)
(*                                                                         *)
(* A byte string (Vec<u8>) is kept as a record                             *)
(*   [id, magic, fields, pad]                                              *)
(* : the packet-id byte, whether the 16-byte magic cookie follows it, the  *)
(* fixed fields after it and the number of trailing zero bytes.            *)
(***************************************************************************)
EXTENDS Integers, Sequences, FiniteSets, TLC

VARIABLES conns, chan, closed, now, malformed, last, wire

vars == <<conns, chan, closed, now, malformed, last, wire>>

(***************************************************************************)
(* Bounds of the model.                                                    *)
(***************************************************************************)
\* capacity of the outbound send channel (mpsc::channel(n))
ChanCap == 1
\* the clock stops being advanced after this many ticker periods
MaxTime == 2
\* longest batching queue explored
MaxQueue == 1
\* longest event_dispatch explored
MaxEvents == 2
\* receive timeout, in ticker periods
TimeoutTicks == 1

(***************************************************************************)
(* Program constants.                                                      *)
(***************************************************************************)
DefaultMtu == 1400
MAX_MTU == 1400
raknet_version == 10
server_guid == 7
MalformedLimit == 5
U16 == 65536
UdpIpOverhead == 28
MagicLen == 16

Addr1 == "10.0.0.1:19132"
Addr2 == "10.0.0.2:19132"
Addrs == {Addr1, Addr2}

Priorities == {"Immediate", "Normal", "Low"}

ConnectionState ==
    {"Unidentified", "Initializing", "Connecting", "Connected", "Disconnecting", "Offline"}

(***************************************************************************)
(* Packet ids (packet_id! in offline.rs, spec section 6 for the online     *)
(* ones).                                                                  *)
(***************************************************************************)
ID_UnconnectedPing == 1
ID_UnconnectedPong == 28
ID_OpenConnectRequest == 5
ID_OpenConnectReply == 6
ID_SessionInfoRequest == 7
ID_SessionInfoReply == 8
ID_IncompatibleProtocolVersion == 25
ID_ConnectedPing == 0
ID_ConnectedPong == 3
ID_ConnectionRequest == 9
ID_ConnectionRequestAccepted == 16
ID_NewIncomingConnection == 19
ID_Disconnect == 21
\* a FrameSet datagram: no Packet has this id
ID_FrameSet == 132

OfflineIds ==
    {ID_UnconnectedPing, ID_UnconnectedPong, ID_OpenConnectRequest, ID_OpenConnectReply,
     ID_SessionInfoRequest, ID_SessionInfoReply, ID_IncompatibleProtocolVersion}

OnlineIds ==
    {ID_ConnectedPing, ID_ConnectedPong, ID_ConnectionRequest,
     ID_ConnectionRequestAccepted, ID_NewIncomingConnection, ID_Disconnect}

Bytes(id, magic, fields, pad) ==
    [id |-> id, magic |-> magic, fields |-> fields, pad |-> pad]

\* source.len() of the bytes that follow the id byte (every field here is one byte)
source_len(b) == (IF b.magic THEN MagicLen ELSE 0) + Len(b.fields) + b.pad

Min(a, b) == IF a < b THEN a ELSE b


(***************************************************************************)
(* Packets.  A Packet in memory is [id, f]: its id and the tuple of its     *)
(* fields (the magic cookie is a constant and is not kept).                *)
(***************************************************************************)
Pk(id, f) == [id |-> id, f |-> f]

\* OpenConnectRequest { magic, protocol, mtu_size }
OpenConnectRequest(protocol, mtu_size) == Pk(ID_OpenConnectRequest, <<protocol, mtu_size>>)
\* OpenConnectReply { magic, server_id, security, mtu_size }
OpenConnectReply(server_id, security, mtu_size) ==
    Pk(ID_OpenConnectReply, <<server_id, security, mtu_size>>)
\* IncompatibleProtocolVersion { protocol, magic, server_id }
IncompatibleProtocolVersion(protocol, server_id) ==
    Pk(ID_IncompatibleProtocolVersion, <<protocol, server_id>>)
\* UnconnectedPong { timestamp, server_id, magic }
UnconnectedPong(timestamp, server_id) == Pk(ID_UnconnectedPong, <<timestamp, server_id>>)
\* SessionInfoReply { magic, server_id, client_address, mtu_size, security }
SessionInfoReply(server_id, client_address, mtu_size, security) ==
    Pk(ID_SessionInfoReply, <<server_id, client_address, mtu_size, security>>)
DisconnectPacket == Pk(ID_Disconnect, <<>>)

\* the packets whose wire form carries the magic cookie
MagicIds == OfflineIds

\* number of fields after the id (and the magic cookie) of each packet
NFields(id) ==
    CASE id = ID_UnconnectedPing -> 2
      [] id = ID_UnconnectedPong -> 2
      [] id = ID_OpenConnectRequest -> 1
      [] id = ID_OpenConnectReply -> 3
      [] id = ID_SessionInfoRequest -> 3
      [] id = ID_SessionInfoReply -> 4
      [] id = ID_IncompatibleProtocolVersion -> 2
      [] id = ID_ConnectedPing -> 1
      [] id = ID_ConnectedPong -> 2
      [] id = ID_ConnectionRequest -> 2
      [] id = ID_ConnectionRequestAccepted -> 5
      [] OTHER -> 0

\* impl Streamable for OpenConnectRequest: compose.  mtu_size is not read from the
\* bytes: it is the length of the source plus the id byte and the UDP/IP header,
\* cast to u16.
OpenConnectRequest_compose(b) ==
    IF b.magic /\ Len(b.fields) + b.pad >= 1
    THEN [ok |-> TRUE,
          packet |-> OpenConnectRequest(IF Len(b.fields) >= 1 THEN b.fields[1] ELSE 0,
                                        (source_len(b) + 1 + UdpIpOverhead) % U16)]
    ELSE [ok |-> FALSE, packet |-> Pk(ID_OpenConnectRequest, <<>>)]

\* impl Streamable for OpenConnectRequest: parse.  magic, protocol, then mtu_size
\* bytes of zero padding.
OpenConnectRequest_parse(pk) == Bytes(ID_OpenConnectRequest, TRUE, <<pk.f[1]>>, pk.f[2])

\* Packet::parse
Packet_parse(pk) ==
    IF pk.id = ID_OpenConnectRequest THEN OpenConnectRequest_parse(pk)
    ELSE Bytes(pk.id, pk.id \in MagicIds, pk.f, 0)

\* Packet::compose: Err for an unknown id or a body that is too short
Packet_compose(b) ==
    IF b.id = ID_OpenConnectRequest THEN OpenConnectRequest_compose(b)
    ELSE IF /\ b.id \in OfflineIds \cup OnlineIds
            /\ (b.id \in MagicIds => b.magic)
            /\ Len(b.fields) >= NFields(b.id)
    THEN [ok |-> TRUE, packet |-> Pk(b.id, SubSeq(b.fields, 1, NFields(b.id)))]
    ELSE [ok |-> FALSE, packet |-> Pk(b.id, <<>>)]

\* Packet::is_online
is_online(pk) == pk.id \in OnlineIds

(***************************************************************************)
(* internal::queue::Queue<Vec<u8>>                                         *)
(***************************************************************************)
Queue_new == [pending |-> <<>>, frozen |-> FALSE]

\* a frozen queue takes nothing
Queue_push(q, item, priority) ==
    IF q.frozen THEN q
    ELSE [q EXCEPT !.pending = Append(@, [stream |-> item, priority |-> priority])]

Queue_flush(q) == [q EXCEPT !.pending = <<>>]

(***************************************************************************)
(* RakEvent                                                                *)
(***************************************************************************)
DisconnectEvent(address, reason) ==
    [type |-> "Disconnect", address |-> address, reason |-> reason]
ConnectEvent(address) == [type |-> "Connect", address |-> address, reason |-> ""]

\* ConnectionState::is_reliable: every state but the one of a session that is gone.
\* recv forces a connection that is not reliable back to Unidentified, and
\* ensure_disconnect exists because the state of a disconnected connection does
\* not stay Offline.
is_reliable(state) == state # "Offline"

(***************************************************************************)
(* Connection.  The operations work on a context                           *)
(*   x = [c, chan, closed, err]                                            *)
(* : the connection, the shared send channel as the call sees it, whether  *)
(* the channel's receiver is gone, and whether a send of this call         *)
(* returned Err.  c.blocked holds the datagram of a send that is parked in *)
(* block_on because the channel is full.                                   *)
(***************************************************************************)
\* Connection::new with ensure_disconnect set from the start
Connection_new_disconnected(address, t) ==
    [address |-> address,
     state |-> "Unidentified",
     mtu |-> DefaultMtu,
     recv_time |-> t,
     queue |-> Queue_new,
     event_dispatch |-> <<>>,
     ensure_disconnect |-> TRUE,
     blocked |-> <<>>]

\* Connection::new
Connection_new(address, t) ==
    [address |-> address,
     state |-> "Unidentified",
     mtu |-> DefaultMtu,
     recv_time |-> t,
     queue |-> Queue_new,
     event_dispatch |-> <<>>,
     ensure_disconnect |-> FALSE,
     blocked |-> <<>>]

Ctx(c) == [c |-> c, chan |-> chan, closed |-> closed, err |-> FALSE]

\* send_immediate with try_send in place of send: a full channel drops the datagram
send_immediate_try(x, stream) ==
    IF x.closed THEN [x EXCEPT !.err = TRUE]
    ELSE IF Len(x.chan) < ChanCap
    THEN [x EXCEPT !.chan = Append(@, <<x.c.address, stream>>)]
    ELSE [x EXCEPT !.err = TRUE]

\* Connection::send_immediate: block_on(send_channel.send((address, stream))); an
\* Err (receiver gone) is ignored
send_immediate(x, stream) ==
    IF x.closed THEN [x EXCEPT !.err = TRUE]
    ELSE IF Len(x.chan) < ChanCap
    THEN [x EXCEPT !.chan = Append(@, <<x.c.address, stream>>)]
    ELSE [x EXCEPT !.c.blocked = <<stream>>]

\* Connection::send_stream
send_stream(x, stream, priority) ==
    IF priority = "Immediate" THEN x
    ELSE [x EXCEPT !.c.queue = Queue_push(@, stream, priority)]

\* Connection::send_packet
send_packet(x, packet, priority) ==
    IF priority = "Immediate" THEN send_immediate(x, Packet_parse(packet))
    ELSE [x EXCEPT !.c.queue = Queue_push(@, Packet_parse(packet), "Normal")]

\* send that hands the stream to the channel whatever instant is
send_always_immediate(x, stream, instant) == send_immediate(x, stream)

\* Connection::send
send(x, stream, instant) ==
    IF instant THEN send_immediate(x, stream)
    ELSE [x EXCEPT !.c.queue = Queue_push(@, stream, "Normal")]

\* disconnect without the queue.flush() call
disconnect_no_flush(x, reason, server_initiated) ==
    LET x1 == [x EXCEPT !.c.event_dispatch = Append(@, DisconnectEvent(x.c.address, reason)),
                        !.c.state = "Offline",
                        !.c.ensure_disconnect = TRUE,
                        !.c.queue.frozen = TRUE]
    IN  IF server_initiated THEN send_packet(x1, DisconnectPacket, "Immediate") ELSE x1

\* disconnect that sends the Disconnect packet with Normal priority
disconnect_queued(x, reason, server_initiated) ==
    LET x1 == [x EXCEPT !.c.event_dispatch = Append(@, DisconnectEvent(x.c.address, reason)),
                        !.c.state = "Offline",
                        !.c.ensure_disconnect = TRUE,
                        !.c.queue = Queue_flush([@ EXCEPT !.frozen = TRUE])]
    IN  IF server_initiated THEN send_packet(x1, DisconnectPacket, "Normal") ELSE x1

\* Connection::disconnect
disconnect(x, reason, server_initiated) ==
    LET x1 == [x EXCEPT !.c.event_dispatch = Append(@, DisconnectEvent(x.c.address, reason)),
                        !.c.state = "Offline",
                        !.c.ensure_disconnect = TRUE,
                        !.c.queue = Queue_flush([@ EXCEPT !.frozen = TRUE])]
    IN  IF server_initiated THEN send_packet(x1, DisconnectPacket, "Immediate") ELSE x1

\* is_disconnected read off the state instead of the flag
is_disconnected_by_state(c) == c.state = "Offline"

\* Connection::is_disconnected
is_disconnected(c) == c.ensure_disconnect = TRUE

\* Connection::tick
tick(c) == c

(***************************************************************************)
(* protocol::handler: the handshake of spec section 4.E, as                 *)
(* (state, inbound packet) -> (next state, replies).  Offline replies are  *)
(* unframed and leave at once; online replies go through the send queue.   *)
(***************************************************************************)
handle_offline(x, packet) ==
    CASE packet.id = ID_UnconnectedPing /\ x.c.state = "Unidentified" ->
            send_packet(x, UnconnectedPong(packet.f[1], server_guid), "Immediate")
      [] packet.id = ID_OpenConnectRequest /\ x.c.state = "Unidentified" ->
            IF packet.f[1] = raknet_version
            THEN send_packet([x EXCEPT !.c.state = "Initializing",
                                       !.c.mtu = Min(packet.f[2], MAX_MTU)],
                             OpenConnectReply(server_guid, FALSE, Min(packet.f[2], MAX_MTU)),
                             "Immediate")
            ELSE send_packet(x, IncompatibleProtocolVersion(raknet_version, server_guid),
                             "Immediate")
      [] packet.id = ID_SessionInfoRequest /\ x.c.state = "Initializing" ->
            send_packet([x EXCEPT !.c.state = "Connecting"],
                        SessionInfoReply(server_guid, packet.f[1], packet.f[2], FALSE),
                        "Immediate")
      [] OTHER -> x

handle_online(x, packet) ==
    CASE packet.id = ID_ConnectionRequest /\ x.c.state = "Connecting" ->
            send_packet(x, Pk(ID_ConnectionRequestAccepted,
                              <<x.c.address, 0, 10, packet.f[2], packet.f[2]>>), "Normal")
      [] packet.id = ID_NewIncomingConnection /\ x.c.state = "Connecting" ->
            [x EXCEPT !.c.state = "Connected",
                      !.c.event_dispatch = Append(@, ConnectEvent(x.c.address))]
      [] packet.id = ID_ConnectedPing ->
            send_packet(x, Pk(ID_ConnectedPong, <<packet.f[1], packet.f[1]>>), "Normal")
      [] packet.id = ID_Disconnect /\ x.c.state = "Connected" ->
            disconnect(x, "peer", FALSE)
      [] OTHER -> x

\* recv with the is_online test inverted
recv_swapped(x, payload, t) ==
    LET x1 == [x EXCEPT !.c.recv_time = t,
                        !.c.state = IF is_reliable(@) THEN @ ELSE "Unidentified"]
        r == Packet_compose(payload)
    IN  IF r.ok
        THEN IF is_online(r.packet) THEN handle_offline(x1, r.packet)
             ELSE handle_online(x1, r.packet)
        ELSE x1

\* recv forcing a connection that is not reliable to Connecting
recv_reset_connecting(x, payload, t) ==
    LET x1 == [x EXCEPT !.c.recv_time = t,
                        !.c.state = IF is_reliable(@) THEN @ ELSE "Connecting"]
        r == Packet_compose(payload)
    IN  IF r.ok
        THEN IF is_online(r.packet) THEN handle_online(x1, r.packet)
             ELSE handle_offline(x1, r.packet)
        ELSE x1

\* Connection::recv
recv(x, payload, t) ==
    LET x1 == [x EXCEPT !.c.recv_time = t,
                        !.c.state = IF is_reliable(@) THEN @ ELSE "Unidentified"]
        r == Packet_compose(payload)
    IN  IF r.ok
        THEN IF is_online(r.packet) THEN handle_online(x1, r.packet)
             ELSE handle_offline(x1, r.packet)
        ELSE x1

(***************************************************************************)
(* Inputs.                                                                 *)
(***************************************************************************)
\* an application payload: one byte after a first byte that is no packet id
AppStream == Bytes(254, FALSE, <<1>>, 0)

AppStreams == {AppStream}

UserPackets == {DisconnectPacket}

Reasons == {"bye"}

\* the padding of an OpenConnectRequest datagram that asks for an mtu: what is left
\* of it after the UDP/IP header, the id, the magic cookie and the protocol byte
PadFor(mtu) == mtu - UdpIpOverhead - 1 - MagicLen - 1

\* requests padded to an mtu of 1200, and to one above MAX_MTU
OcrPads == {PadFor(1200), PadFor(MAX_MTU + 100)}

\* a FrameSet datagram with sequence number 0, carrying one reliable frame
FrameSetDatagram == Bytes(ID_FrameSet, FALSE, <<0>>, 0)

Malformed == {FrameSetDatagram, Bytes(ID_OpenConnectRequest, FALSE, <<>>, 0)}

Datagrams ==
    {Bytes(ID_OpenConnectRequest, TRUE, <<raknet_version>>, n) : n \in OcrPads}
    \cup {Bytes(ID_OpenConnectRequest, TRUE, <<raknet_version - 1>>, PadFor(1200))}
    \cup {Bytes(ID_SessionInfoRequest, TRUE, <<1, 1200, 42>>, 0)}
    \cup {Bytes(ID_ConnectionRequest, FALSE, <<42, 1000>>, 0)}
    \cup {Bytes(ID_NewIncomingConnection, FALSE, <<>>, 0)}
    \cup {Bytes(ID_Disconnect, FALSE, <<>>, 0)}
    \cup Malformed

(***************************************************************************)
(* The state machine.                                                      *)
(*   conns      address -> Connection, the listener's map                  *)
(*   chan       the outbound send channel, oldest first                    *)
(*   closed     the channel's receiver (the writer) is gone                *)
(*   now        the clock, in ticker periods                               *)
(*   malformed  address -> malformed datagrams a Connected connection got  *)
(*              since the last ticker period (an observer, not a field)    *)
(*   last       the call made last: its name, its connection, its priority *)
(*              or flag, and whether a channel send of it returned Err     *)
(*   wire       an OpenConnectRequest on its way through the codec: the    *)
(*              packet, its bytes once parsed, the packet composed of them *)
(***************************************************************************)
Call(op, a, flag, err) == [op |-> op, addr |-> a, flag |-> flag, err |-> err]

Idle(a) == a \in DOMAIN conns /\ conns[a].blocked = <<>>

Bounded(c) ==
    /\ Len(c.queue.pending) <= MaxQueue
    /\ Len(c.event_dispatch) <= MaxEvents

\* the connection and the channel after a call that ended in context x
Commit(a, x) ==
    /\ Bounded(x.c)
    /\ conns' = [conns EXCEPT ![a] = x.c]
    /\ chan' = x.chan

\* the codec's state for a packet that has not been parsed yet
Wire(packet) == [packet |-> packet, stream |-> << >>, composed |-> << >>]

Listening ==
    /\ conns = << >>
    /\ chan = << >>
    /\ closed = FALSE
    /\ now = 0
    /\ malformed = [a \in Addrs |-> 0]
    /\ last = Call("none", Addr1, "", FALSE)

Init ==
    /\ Listening
    /\ wire = Wire(OpenConnectRequest(raknet_version, DefaultMtu))

\* the listener creates the Connection of a new address
NewConnection(a) ==
    /\ a \notin DOMAIN conns
    /\ conns' = [b \in DOMAIN conns \cup {a} |->
                    IF b = a THEN Connection_new(a, now) ELSE conns[b]]
    /\ last' = Call("new", a, "", FALSE)
    /\ UNCHANGED <<chan, closed, now, malformed, wire>>

SendStream(a, stream, priority) ==
    /\ Idle(a)
    /\ LET x == send_stream(Ctx(conns[a]), stream, priority)
       IN  /\ Commit(a, x)
           /\ last' = Call("send_stream", a, priority, x.err)
    /\ UNCHANGED <<closed, now, malformed, wire>>

SendPacket(a, packet, priority) ==
    /\ Idle(a)
    /\ LET x == send_packet(Ctx(conns[a]), packet, priority)
       IN  /\ Commit(a, x)
           /\ last' = Call("send_packet", a, priority, x.err)
    /\ UNCHANGED <<closed, now, malformed, wire>>

Send(a, stream, instant) ==
    /\ Idle(a)
    /\ LET x == send(Ctx(conns[a]), stream, instant)
       IN  /\ Commit(a, x)
           /\ last' = Call("send", a, IF instant THEN "Immediate" ELSE "Normal", x.err)
    /\ UNCHANGED <<closed, now, malformed, wire>>

RecvCall(a, payload) ==
    /\ Idle(a)
    /\ LET x == recv(Ctx(conns[a]), payload, now)
       IN  /\ Commit(a, x)
           /\ last' = Call("recv", a, "", x.err)
    /\ UNCHANGED <<closed, now, wire>>

Recv(a, payload) == RecvCall(a, payload) /\ UNCHANGED malformed

\* recv, with the malformed datagrams of a Connected connection counted
RecvCounted(a, payload) ==
    /\ RecvCall(a, payload)
    /\ malformed' = [malformed EXCEPT ![a] =
                        IF ~Packet_compose(payload).ok /\ conns[a].state = "Connected"
                        THEN Min(@ + 1, MalformedLimit + 1) ELSE @]

Disconnect(a, reason, server_initiated) ==
    /\ Idle(a)
    /\ LET x == disconnect(Ctx(conns[a]), reason, server_initiated)
       IN  /\ Commit(a, x)
           /\ last' = Call("disconnect", a,
                           IF server_initiated THEN "server" ELSE "client", x.err)
    /\ UNCHANGED <<closed, now, malformed, wire>>

\* a send parked on the full channel goes through once there is room, or returns
\* Err once the receiver is gone
CompleteSend(a) ==
    /\ a \in DOMAIN conns
    /\ conns[a].blocked # <<>>
    /\ closed \/ Len(chan) < ChanCap
    /\ LET x == send_immediate(Ctx([conns[a] EXCEPT !.blocked = <<>>]), conns[a].blocked[1])
       IN  /\ Commit(a, x)
           /\ last' = [last EXCEPT !.err = x.err]
    /\ UNCHANGED <<closed, now, malformed, wire>>

\* the ticker: one period passes, then tick() on every connection
Tick ==
    /\ now < MaxTime
    /\ now' = now + 1
    /\ conns' = [a \in DOMAIN conns |-> tick(conns[a])]
    /\ malformed' = [a \in Addrs |-> 0]
    /\ last' = Call("tick", Addr1, "", FALSE)
    /\ UNCHANGED <<chan, closed, wire>>

\* the writer takes the oldest datagram off the channel
WriterRecv ==
    /\ ~closed
    /\ chan # << >>
    /\ chan' = Tail(chan)
    /\ UNCHANGED <<conns, closed, now, malformed, last, wire>>

\* the listener shuts down: the receiver is dropped with what it still held
CloseChannel ==
    /\ ~closed
    /\ closed' = TRUE
    /\ chan' = << >>
    /\ UNCHANGED <<conns, now, malformed, last, wire>>

Next ==
    \/ NewConnection(Addr1)
    \/ \E s \in AppStreams, p \in Priorities : SendStream(Addr1, s, p)
    \/ \E k \in UserPackets, p \in Priorities : SendPacket(Addr1, k, p)
    \/ \E s \in AppStreams, i \in BOOLEAN : Send(Addr1, s, i)
    \/ \E d \in Datagrams : Recv(Addr1, d)
    \/ \E r \in Reasons, si \in BOOLEAN : Disconnect(Addr1, r, si)
    \/ CompleteSend(Addr1)
    \/ Tick
    \/ WriterRecv
    \/ CloseChannel

Spec == Init /\ [][Next]_vars

\* a peer that floods one connection with datagrams
NextFlood ==
    \/ NewConnection(Addr1)
    \/ \E d \in Datagrams : RecvCounted(Addr1, d)
    \/ CompleteSend(Addr1)
    \/ Tick
    \/ WriterRecv

FloodSpec == Init /\ [][NextFlood]_vars

\* several connections that send at once on the shared channel
NextShared ==
    \/ \E a \in Addrs : NewConnection(a)
    \/ \E a \in Addrs, s \in AppStreams : Send(a, s, TRUE)
    \/ \E a \in Addrs, k \in UserPackets : SendPacket(a, k, "Immediate")
    \/ \E a \in Addrs, r \in Reasons : Disconnect(a, r, TRUE)
    \/ \E a \in Addrs : CompleteSend(a)
    \/ WriterRecv
    \/ CloseChannel

SharedSpec == Init /\ [][NextShared]_vars

\* the OpenConnectRequest packets handed to the codec: protocol is a u8 and
\* mtu_size a u16; the sizes are the smallest, the usual ones, and the largest
Protocols == {0, raknet_version, raknet_version + 1, 255}

MtuSizes ==
    (0..7) \cup {576, 1200, DefaultMtu, 1492}
           \cup ((U16 - UdpIpOverhead - MagicLen - 6)..(U16 - UdpIpOverhead - MagicLen + 1))
           \cup {U16 - 2, U16 - 1}

Requests == {OpenConnectRequest(p, m) : p \in Protocols, m \in MtuSizes}

CodecInit ==
    /\ Listening
    /\ wire \in {Wire(pk) : pk \in Requests}

\* OpenConnectRequest::parse on the packet
ParseRequest ==
    /\ wire.stream = << >>
    /\ wire' = [wire EXCEPT !.stream = <<OpenConnectRequest_parse(wire.packet)>>]
    /\ UNCHANGED <<conns, chan, closed, now, malformed, last>>

\* OpenConnectRequest::compose on the bytes parse produced
ComposeRequest ==
    /\ wire.stream # << >>
    /\ wire.composed = << >>
    /\ wire' = [wire EXCEPT !.composed = <<OpenConnectRequest_compose(wire.stream[1])>>]
    /\ UNCHANGED <<conns, chan, closed, now, malformed, last>>

NextCodec ==
    \/ ParseRequest
    \/ ComposeRequest

CodecSpec == CodecInit /\ [][NextCodec]_vars

(***************************************************************************)
(* Properties.                                                             *)
(***************************************************************************)
Has(a) == a \in DOMAIN conns

Events(a) == {conns[a].event_dispatch[i] : i \in 1..Len(conns[a].event_dispatch)}

\* the call on connection a that this step makes returns in this step
Returns(a) == conns'[a].blocked = <<>>

\* C1: receive timeout.  Once a tick has run with no recv for longer than the
\* timeout, the connection is Offline and a Disconnect(address, "timeout") event
\* is in event_dispatch.
ReceiveTimeout ==
    \A a \in DOMAIN conns :
        (last.op = "tick" /\ now - conns[a].recv_time > TimeoutTicks)
            => /\ conns[a].state = "Offline"
               /\ DisconnectEvent(a, "timeout") \in Events(a)

\* C2: queued sends are emitted.  After a tick on a connection that is not
\* disconnected, nothing that was queued is still waiting in the queue.
QueuedSendsEmitted ==
    \A a \in DOMAIN conns :
        (last.op = "tick" /\ ~is_disconnected(conns[a]))
            => conns[a].queue.pending = <<>>

\* C3: Immediate priority bypasses batching.  With the channel open, when
\* send_stream(stream, Immediate), send_packet(packet, Immediate) or
\* send(stream, true) returns, the payload has been appended to the send channel
\* once, tagged with the connection's address, and the queue is as it was.
Bypassed(a, stream) ==
    /\ chan' = Append(chan, <<a, stream>>)
    /\ conns'[a].queue = conns[a].queue

ImmediateBypassesBatching ==
    [][/\ \A s \in AppStreams :
              (SendStream(Addr1, s, "Immediate") /\ ~closed /\ Returns(Addr1))
                  => Bypassed(Addr1, s)
       /\ \A k \in UserPackets :
              (SendPacket(Addr1, k, "Immediate") /\ ~closed /\ Returns(Addr1))
                  => Bypassed(Addr1, Packet_parse(k))
       /\ \A s \in AppStreams :
              (Send(Addr1, s, TRUE) /\ ~closed /\ Returns(Addr1))
                  => Bypassed(Addr1, s)]_vars

\* C4: effect of disconnect.  When disconnect(reason, server_initiated) returns,
\* the state is Offline, is_disconnected() is true, Disconnect(address, reason) is
\* the last element of event_dispatch, and the queue is frozen and empty.
Disconnected(c, reason) ==
    /\ c.state = "Offline"
    /\ is_disconnected(c)
    /\ c.event_dispatch # <<>>
    /\ c.event_dispatch[Len(c.event_dispatch)] = DisconnectEvent(c.address, reason)
    /\ c.queue.frozen
    /\ c.queue.pending = <<>>

DisconnectEffect ==
    [][/\ \A r \in Reasons, si \in BOOLEAN :
              (Disconnect(Addr1, r, si) /\ Returns(Addr1))
                  => Disconnected(conns'[Addr1], r)
       /\ (CompleteSend(Addr1) /\ last.op = "disconnect")
              => \E r \in Reasons : Disconnected(conns'[Addr1], r)]_vars

DisconnectEffectWitness ==
    /\ Has(Addr1)
    /\ last.op = "disconnect"
    /\ last.flag = "server"
    /\ conns[Addr1].blocked = <<>>
    /\ conns[Addr1].state = "Offline"
    /\ chan # <<>>
    /\ chan[Len(chan)] = <<Addr1, Packet_parse(DisconnectPacket)>>
    /\ conns[Addr1].event_dispatch =
           <<ConnectEvent(Addr1), DisconnectEvent(Addr1, "bye")>>

\* C5: a failed internal send takes the connection offline.  After a call whose
\* send on the channel returned Err, the connection is Offline.
FailedSendGoesOffline ==
    \A a \in DOMAIN conns :
        (last.err /\ last.addr = a) => conns[a].state = "Offline"

\* C6: backpressure on the shared channel.  The channel never holds more than its
\* bound.  An immediate send that finds the channel full and open is parked with
\* its datagram and the channel is left as it was; a parked datagram stays parked
\* until there is room, and then it is appended to the channel.
Backpressure ==
    /\ [](Len(chan) <= ChanCap)
    /\ [][\A a \in Addrs :
            /\ \A s \in AppStreams :
                   (Send(a, s, TRUE) /\ ~closed /\ Len(chan) = ChanCap)
                       => (conns'[a].blocked = <<s>> /\ chan' = chan)
            /\ (Has(a) /\ conns[a].blocked # <<>> /\ ~closed')
                   => \/ conns'[a].blocked = conns[a].blocked
                      \/ /\ Len(chan) < ChanCap
                         /\ chan' = Append(chan, <<a, conns[a].blocked[1]>>)
                         /\ conns'[a].blocked = <<>>]_vars

\* two producers: one connection's datagram fills the channel while the other
\* connection's send is parked
BackpressureWitness ==
    /\ Has(Addr1) /\ Has(Addr2)
    /\ Len(chan) = ChanCap
    /\ chan[1][1] = Addr1
    /\ conns[Addr2].blocked = <<AppStream>>
    /\ ~closed

\* C7: Offline absorbs stray datagrams.  A recv on a connection whose state is
\* Offline leaves the state Offline, adds no event and hands nothing to the send
\* channel.
OfflineAbsorbs ==
    [][\A d \in Datagrams :
            (Recv(Addr1, d) /\ conns[Addr1].state = "Offline")
                => /\ conns'[Addr1].state = "Offline"
                   /\ conns'[Addr1].event_dispatch = conns[Addr1].event_dispatch
                   /\ conns'[Addr1].blocked = <<>>
                   /\ chan' = chan]_vars

\* C8: a malformed datagram is dropped silently.  A recv of a payload that does
\* not parse changes recv_time and nothing else: not the state, the mtu, the
\* queue, event_dispatch or the send channel.
MalformedDropped ==
    [][\A d \in Malformed :
            Recv(Addr1, d)
                => /\ conns' = [conns EXCEPT ![Addr1].recv_time = now]
                   /\ chan' = chan]_vars

\* C9: repeated malformed input disconnects.  A Connected connection that got more
\* than 5 malformed datagrams within a second is Offline, with a
\* Disconnect(address, "protocol_violation") event surfaced.
RepeatedMalformedDisconnects ==
    \A a \in DOMAIN conns :
        malformed[a] > MalformedLimit
            => /\ conns[a].state = "Offline"
               /\ DisconnectEvent(a, "protocol_violation") \in Events(a)

\* C10: protocol negotiation.  When recv of an OpenConnectRequest returns on a
\* connection that was Unidentified and whose channel is open: for the configured
\* protocol the reply handed to the channel is OpenConnectReply(server id,
\* security = false, mtu = min(requested mtu, MAX_MTU)) and the state is
\* Initializing; for another protocol the reply is IncompatibleProtocolVersion
\* and the state is still Unidentified.
Replied(a, packet) ==
    /\ chan' = Append(chan, <<a, Packet_parse(packet)>>)
    /\ conns'[a].queue = conns[a].queue

\* the mtu a datagram with n bytes of padding asks for: id, magic, protocol and
\* padding, plus the UDP/IP header
RequestedMtu(n) == 1 + MagicLen + 1 + n + UdpIpOverhead

Successors(state) ==
    CASE state = "Unidentified" -> {"Unidentified", "Initializing", "Offline"}
      [] state = "Initializing" -> {"Initializing", "Connecting", "Offline"}
      [] state = "Connecting" -> {"Connecting", "Connected", "Offline"}
      [] state = "Connected" -> {"Connected", "Offline"}
      [] state = "Offline" -> {"Offline", "Unidentified", "Initializing"}
      [] OTHER -> {}

Surfaced(c) ==
    Cardinality({i \in 1..Len(c.event_dispatch) :
                    c.event_dispatch[i].type \notin {"Connect", "Disconnect"}})

ExactlyOnceDelivery ==
    [][(/\ Has(Addr1)
        /\ conns[Addr1].state = "Connected"
        /\ Recv(Addr1, FrameSetDatagram))
           => Surfaced(conns'[Addr1]) = Surfaced(conns[Addr1]) + 1]_vars

\* C13: origin of outbound datagrams.  A send with Normal or Low priority (or
\* instant = false) hands nothing to the send channel and parks nothing on it;
\* whenever the channel gains a datagram, the call that handed it over is a tick
\* or a send with Immediate priority: send(stream, true), send_packet(packet,
\* Immediate), or the Immediate send_packet that disconnect and the handshake
\* replies of recv make.
Batched == Priorities \ {"Immediate"}

ImmediateCall(call) ==
    \/ call.op = "tick"
    \/ call.op \in {"send", "send_packet", "send_stream"} /\ call.flag = "Immediate"
    \/ call.op = "disconnect" /\ call.flag = "server"
    \/ call.op = "recv"

OutboundOrigin ==
    [][/\ Len(chan') > Len(chan) => ImmediateCall(last')
       /\ (/\ Has(Addr1)
           /\ last'.flag \in Batched
           /\ \/ \E s \in AppStreams, p \in Batched : SendStream(Addr1, s, p)
              \/ \E k \in UserPackets, p \in Batched : SendPacket(Addr1, k, p)
              \/ \E s \in AppStreams : Send(Addr1, s, FALSE))
              => (chan' = chan /\ conns'[Addr1].blocked = <<>>)]_vars

\* a payload sent with instant = false waits in the queue; the channel is empty
OutboundOriginWitness ==
    /\ Has(Addr1)
    /\ last.op = "send"
    /\ last.flag = "Normal"
    /\ conns[Addr1].queue.pending = <<[stream |-> AppStream, priority |-> "Normal"]>>
    /\ chan = <<>>
    /\ ~closed

\* C14: initial state of a connection.  The connection that Connection::new makes
\* is Unidentified, has mtu 1400, an empty queue that is not frozen, an empty
\* event_dispatch and is_disconnected() false; making it leaves the send channel
\* and the other connections as they were.
InitialState ==
    [][\A a \in Addrs :
            (~Has(a) /\ NewConnection(a))
                => /\ conns'[a].address = a
                   /\ conns'[a].state = "Unidentified"
                   /\ conns'[a].mtu = 1400
                   /\ conns'[a].queue.pending = <<>>
                   /\ ~conns'[a].queue.frozen
                   /\ conns'[a].event_dispatch = <<>>
                   /\ ~is_disconnected(conns'[a])
                   /\ conns'[a].blocked = <<>>
                   /\ chan' = chan
                   /\ \A b \in DOMAIN conns : conns'[b] = conns[b]]_vars

\* a second connection is made while the channel holds a datagram of the first
InitialStateWitness ==
    /\ last.op = "new"
    /\ last.addr = Addr2
    /\ Has(Addr1) /\ Has(Addr2)
    /\ chan # <<>>
    /\ chan[1][1] = Addr1
    /\ conns[Addr2].state = "Unidentified"

\* C15: send priority is preserved when queueing.  A send_stream or a send_packet
\* with Normal or Low priority on a queue that is not frozen appends the payload
\* to the queue under the priority the caller passed.
QueuedAs(a, stream, priority) ==
    conns'[a].queue.pending =
        Append(conns[a].queue.pending, [stream |-> stream, priority |-> priority])

PriorityPreserved ==
    [][\A p \in Batched :
            /\ \A s \in AppStreams :
                   (/\ Has(Addr1)
                    /\ ~conns[Addr1].queue.frozen
                    /\ SendStream(Addr1, s, p))
                       => QueuedAs(Addr1, s, p)
            /\ \A k \in UserPackets :
                   (/\ Has(Addr1)
                    /\ ~conns[Addr1].queue.frozen
                    /\ SendPacket(Addr1, k, p))
                       => QueuedAs(Addr1, Packet_parse(k), p)]_vars

\* C16: peer notification on disconnect.  With the channel open,
\* disconnect(reason, true) hands one Disconnect packet tagged with the
\* connection's address to the send channel and leaves the frozen queue empty; if
\* the channel is full the packet is parked, with the state already Offline, and
\* is appended once there is room.  disconnect(reason, false) hands nothing to
\* the channel and parks nothing.
PeerNotified ==
    [][\A r \in Reasons :
            /\ (Has(Addr1) /\ ~closed /\ Disconnect(Addr1, r, TRUE))
                   => /\ conns'[Addr1].state = "Offline"
                      /\ conns'[Addr1].queue.pending = <<>>
                      /\ \/ /\ chan' = Append(chan, <<Addr1, Packet_parse(DisconnectPacket)>>)
                            /\ conns'[Addr1].blocked = <<>>
                         \/ /\ Len(chan) = ChanCap
                            /\ chan' = chan
                            /\ conns'[Addr1].blocked = <<Packet_parse(DisconnectPacket)>>
            /\ (Has(Addr1) /\ Disconnect(Addr1, r, FALSE))
                   => (chan' = chan /\ conns'[Addr1].blocked = <<>>)
            /\ (Has(Addr1) /\ ~closed /\ last.op = "disconnect" /\ CompleteSend(Addr1))
                   => /\ chan' = Append(chan, <<Addr1, Packet_parse(DisconnectPacket)>>)
                      /\ conns'[Addr1].state = "Offline"]_vars

\* the Disconnect packet of a server-initiated disconnect waits for room on the
\* full channel: the state is Offline before the packet has left
PeerNotifiedWitness ==
    /\ Has(Addr1)
    /\ last.op = "disconnect"
    /\ last.flag = "server"
    /\ ~closed
    /\ Len(chan) = ChanCap
    /\ conns[Addr1].blocked = <<Packet_parse(DisconnectPacket)>>
    /\ conns[Addr1].state = "Offline"
    /\ conns[Addr1].queue.frozen

\* C17: at most one Disconnect event per connection.  Over any sequence of
\* calls on one connection, event_dispatch holds at most one Disconnect event
\* for it.
DisconnectEvents(c) ==
    Cardinality({i \in 1..Len(c.event_dispatch) : c.event_dispatch[i].type = "Disconnect"})

AtMostOneDisconnectEvent ==
    Has(Addr1) => DisconnectEvents(conns[Addr1]) <= 1

\* C18: is_disconnected is monotonic and tied to disconnect.  It is false on a
\* new connection, it turns true only in a step that runs disconnect (the
\* application's call, or recv handing a peer's Disconnect packet to it), and
\* once true it stays true across every later call on the connection.
DisconnectedMonotonic ==
    [][/\ (~Has(Addr1) /\ Has(Addr1)') => ~is_disconnected(conns'[Addr1])
       /\ (Has(Addr1) /\ is_disconnected(conns[Addr1]))
              => is_disconnected(conns'[Addr1])
       /\ (Has(Addr1) /\ ~is_disconnected(conns[Addr1]) /\ is_disconnected(conns'[Addr1]))
              => \/ last'.op = "disconnect"
                 \/ /\ last'.op = "recv"
                    /\ conns[Addr1].state = "Connected"
                    /\ Disconnected(conns'[Addr1], "peer")]_vars

\* a datagram received after disconnect has moved the state off Offline while
\* is_disconnected() still answers true
DisconnectedMonotonicWitness ==
    /\ Has(Addr1)
    /\ last.op = "recv"
    /\ is_disconnected(conns[Addr1])
    /\ conns[Addr1].state # "Offline"

\* C19: OpenConnectRequest round trip.  For every protocol and every mtu_size,
\* compose of the bytes that parse produced succeeds and yields a packet with
\* the same protocol and the same mtu_size, the mtu_size being the datagram
\* length plus the overhead with no wraparound at 65536.
RoundTrip ==
    wire.composed # << >>
        => /\ wire.composed[1].ok
           /\ wire.composed[1].packet.f[1] = wire.packet.f[1]
           /\ wire.composed[1].packet.f[2] = wire.packet.f[2]
           /\ source_len(wire.stream[1]) + 1 + UdpIpOverhead < U16

====
